---- MODULE Spec2Model ----
(***************************************************************************)
(* Model of the ETL pipeline of src/src/services/etl.py (ETLPipeline):     *)
(* the Cleaner, the dimension builders, the bridge builder and the fact    *)
(* builder, as called in sequence by ETLPipeline.run.                      *)
(*                                                                         *)
(* Data representation                                                     *)
(*   - a pandas DataFrame is [cols |-> set of column names, rows |-> seq]; *)
(*     pd.DataFrame([]) has no columns at all;                             *)
(*   - a nested text column value is [ok, items]: ok = FALSE is a value    *)
(*     on which json.loads / iteration raises (malformed text, NaN);       *)
(*     items is the parsed list;                                           *)
(*   - a list element is [isrec, key(, job)]: isrec = FALSE is an element  *)
(*     that is no record (calling .get on it raises); key = 0 stands for   *)
(*     a falsy natural key (missing/None, 0, "");                          *)
(*   - dates are day numbers, 1 = 1900-01-01; NaT is 0;                    *)
(*   - None is -1; the float NaN is -2.                                    *)
(***************************************************************************)
EXTENDS Integers, Sequences, FiniteSets, TLC

\* ---------------------------------------------------------------- bounds
MaxRows == 2
MaxItems == 3
MaxDay == 3
\* the elements of a nested column in the runs that are compared under
\* every row order
MaxOrderItems == 2
IdOffset == 10
\* process starts against one persistent store, and environment faults
\* (an unreadable file, a failing commit) over all of them
MaxStarts == 2
MaxFaults == 1

\* ------------------------------------------------------------- constants
None == -1
NaN == -2
NaT == 0
\* natural keys of nested entities; 0 stands for a falsy key (None, 0, "")
Keys == {0, 1, 2}
DefaultMinDate == 1
DefaultMaxDate == 46047

VARIABLES bronze_movies, bronze_credits, pc, exc, movies_df, credits_df,
          dim_date, dim_movie, dim_genre, dim_director,
          dim_production_company, dim_language, dim_country, bridge_df,
          fact_df,
          \* the files of data/silver and data/gold, the tables of
          \* warehouse.db, the loader's session, the loader's log lines of
          \* the current call, and the environment's counters
          files, db, session, load_log, starts, faults,
          \* the documents of the Typesense collection 'movies' and the
          \* outcome of this start's indexing
          collection, indexing

bronze == <<bronze_movies, bronze_credits>>
inputs == <<bronze_movies, bronze_credits, movies_df, credits_df>>
gold == <<bridge_df, fact_df>>
dims == <<dim_date, dim_movie, dim_genre, dim_director,
          dim_production_company, dim_language, dim_country>>
warehouse == <<files, db, session, load_log, starts, faults, collection,
               indexing>>
vars == <<bronze_movies, bronze_credits, pc, exc, movies_df, credits_df,
          dim_date, dim_movie, dim_genre,
          dim_director, dim_production_company, dim_language, dim_country,
          bridge_df, fact_df, files, db, session, load_log, starts, faults,
          collection, indexing>>

\* ---------------------------------------------------------------- helpers
Range(s) == {s[i] : i \in 1..Len(s)}

\* the concatenation of a sequence of sequences
RECURSIVE Flatten(_)
Flatten(ss) == IF ss = <<>> THEN <<>> ELSE Head(ss) \o Flatten(Tail(ss))

Column(df, c) == [i \in 1..Len(df.rows) |-> df.rows[i][c]]

Min(S) == CHOOSE x \in S : \A y \in S : x <= y
Max(S) == CHOOSE x \in S : \A y \in S : x >= y

\* pd.DataFrame(list_of_dicts): no columns when the list is empty
DataFrame(list, columns) ==
    [cols |-> IF list = <<>> THEN {} ELSE columns, rows |-> list]

\* the slip range(0, len(df))
InsertIdZeroBased(df) ==
    [cols |-> df.cols \cup {"id"},
     rows |-> [i \in 1..Len(df.rows) |->
                 [c \in DOMAIN df.rows[i] \cup {"id"} |->
                     IF c = "id" THEN i - 1 ELSE df.rows[i][c]]]]

\* df.insert(0, 'id', range(1, len(df) + 1))
InsertId(df) ==
    [cols |-> df.cols \cup {"id"},
     rows |-> [i \in 1..Len(df.rows) |->
                 [c \in DOMAIN df.rows[i] \cup {"id"} |->
                     IF c = "id" THEN i ELSE df.rows[i][c]]]]

NoFrame == [cols |-> {}, rows |-> <<>>]

\* ------------------------------------------------- dimension builders
\* The inner loop of a builder over one parsed list (etl.py 173-180,
\* 238-246, 270-277, 303-310): an element that is no record raises at
\* .get, leaving what was appended before it in the list.
RECURSIVE ScanEntities(_, _, _)
ScanEntities(items, i, list) ==
    IF i > Len(items) THEN [list |-> list, raised |-> FALSE]
    ELSE IF ~items[i].isrec THEN [list |-> list, raised |-> TRUE]
    ELSE IF items[i].key # 0 /\ items[i].key \notin Range(list)
         THEN ScanEntities(items, i + 1, Append(list, items[i].key))
         ELSE ScanEntities(items, i + 1, list)

\* The inner loop of build_dim_director (etl.py 205-214): only crew
\* members whose job is "Director".
RECURSIVE ScanDirectors(_, _, _)
ScanDirectors(crew, i, list) ==
    IF i > Len(crew) THEN [list |-> list, raised |-> FALSE]
    ELSE IF ~crew[i].isrec THEN [list |-> list, raised |-> TRUE]
    ELSE IF crew[i].job = "Director" /\ crew[i].key # 0
            /\ crew[i].key \notin Range(list)
         THEN ScanDirectors(crew, i + 1, Append(list, crew[i].key))
         ELSE ScanDirectors(crew, i + 1, list)

\* One row of the outer loop: parse, then scan; [list, raised]
ScanRow(value, list, directors) ==
    IF ~value.ok THEN [list |-> list, raised |-> TRUE]
    ELSE IF directors THEN ScanDirectors(value.items, 1, list)
    ELSE ScanEntities(value.items, 1, list)

\* the slip of a handler that ends the scan (break for continue)
RECURSIVE ScanColumnBreaks(_, _, _, _)
ScanColumnBreaks(column, r, list, directors) ==
    IF r > Len(column) THEN list
    ELSE LET res == ScanRow(column[r], list, directors) IN
         IF res.raised THEN res.list
         ELSE ScanColumnBreaks(column, r + 1, res.list, directors)

\* The outer loop with an except handler that logs and continues
\* (etl.py 166-183, 198-216, 231-248, 296-313).
RECURSIVE ScanColumn(_, _, _, _)
ScanColumn(column, r, list, directors) ==
    IF r > Len(column) THEN list
    ELSE ScanColumn(column, r + 1,
                    ScanRow(column[r], list, directors).list, directors)

\* The outer loop of build_dim_language (etl.py 263-280): the handler
\* `except Exception :` binds no name and then formats {e}, so handling
\* a row's exception raises NameError out of the builder.
RECURSIVE ScanColumnLanguage(_, _, _)
ScanColumnLanguage(column, r, list) ==
    IF r > Len(column) THEN [list |-> list, exc |-> "none"]
    ELSE LET res == ScanRow(column[r], list, FALSE) IN
         IF res.raised THEN [list |-> res.list, exc |-> "NameError"]
         ELSE ScanColumnLanguage(column, r + 1, res.list)

KeyRows(list) == [i \in 1..Len(list) |-> [id |-> list[i], name |-> list[i]]]
CodeRows(list, code) ==
    [i \in 1..Len(list) |-> [c \in {code, "name"} |-> list[i]]]

build_dim_genre(df) ==
    DataFrame(KeyRows(ScanColumn(Column(df, "genres"), 1, <<>>, FALSE)),
              {"id", "name"})

build_dim_director(df) ==
    DataFrame(KeyRows(ScanColumn(Column(df, "crew"), 1, <<>>, TRUE)),
              {"id", "name"})

build_dim_production_company(df) ==
    DataFrame(KeyRows(ScanColumn(Column(df, "production_companies"),
                                 1, <<>>, FALSE)),
              {"id", "name"})

\* returns [exc, df]: df is meaningful only when exc = "none"
build_dim_language(df) ==
    LET res == ScanColumnLanguage(Column(df, "spoken_languages"), 1, <<>>) IN
    [exc |-> res.exc,
     df |-> IF res.exc = "none"
            THEN InsertId(DataFrame(CodeRows(res.list, "iso_639_1"),
                                    {"iso_639_1", "name"}))
            ELSE NoFrame]

build_dim_country(df) ==
    InsertId(DataFrame(
        CodeRows(ScanColumn(Column(df, "production_countries"),
                            1, <<>>, FALSE), "iso_3166_1"),
        {"iso_3166_1", "name"}))

\* build_dim_movie (etl.py 141-157): copy, reset index, rename id to
\* original_id, insert id = 1..N
build_dim_movie(df) ==
    [cols |-> {"id", "original_id", "runtime"},
     rows |-> [i \in 1..Len(df.rows) |->
                 [id |-> i, original_id |-> df.rows[i].id,
                  runtime |-> df.rows[i].runtime]]]

\* build_dim_date (etl.py 109-139): the spine min..max of the valid
\* release dates, or the default span; the row of day d has id
\* d - start + 1, so the table is held as its two ends.
build_dim_date(df) ==
    LET valid == {d \in Range(Column(df, "release_date")) : d # NaT} IN
    [start |-> IF valid = {} THEN DefaultMinDate ELSE Min(valid),
     end |-> IF valid = {} THEN DefaultMaxDate ELSE Max(valid)]

DimDateLen(dd) == dd.end - dd.start + 1

\* the slip inclusive='left': the end day is left out
date_range_left(start, end) == [i \in 1..end - start |-> start + i - 1]
\* pd.date_range(start, end, freq='D') (etl.py 121): both ends included
date_range(start, end) == [i \in 1..end - start + 1 |-> start + i - 1]

\* the rows of the table held as dd (etl.py 123-125): id = 1..len, date
DimDateRows(dd) ==
    LET days == date_range(dd.start, dd.end) IN
    [i \in 1..Len(days) |-> [id |-> i, date |-> days[i]]]

\* ------------------------------------------------------ bridge builder
\* dict(zip(keys, values)).get(k): the last pair of a repeated key wins
DictGet(keys, values, k) ==
    LET hits == {i \in 1..Len(keys) : keys[i] = k} IN
    IF hits = {} THEN None ELSE values[Max(hits)]

\* the slip of leaving out the test `genre_id in dim_genre['id'].values`
RECURSIVE BridgeScanUnchecked(_, _, _, _, _)
BridgeScanUnchecked(genres, i, new_movie_id, genre_ids, list) ==
    IF i > Len(genres) \/ ~genres[i].isrec THEN list
    ELSE BridgeScanUnchecked(genres, i + 1, new_movie_id, genre_ids,
             Append(list, [movie_id |-> new_movie_id,
                           genre_id |-> genres[i].key]))

\* The inner loop of build_bridge_movie_genre (etl.py 345-351); an
\* element that is no record raises and ends the row (etl.py 352-354),
\* the rows appended before it stay.
RECURSIVE BridgeScan(_, _, _, _, _)
BridgeScan(genres, i, new_movie_id, genre_ids, list) ==
    IF i > Len(genres) \/ ~genres[i].isrec THEN list
    ELSE IF genres[i].key \in genre_ids
         THEN BridgeScan(genres, i + 1, new_movie_id, genre_ids,
                  Append(list, [movie_id |-> new_movie_id,
                                genre_id |-> genres[i].key]))
         ELSE BridgeScan(genres, i + 1, new_movie_id, genre_ids, list)

\* The outer loop (etl.py 335-354)
RECURSIVE BridgeRows(_, _, _, _, _)
BridgeRows(df, idx, dm, dg, list) ==
    IF idx > Len(df.rows) THEN list
    ELSE LET new_movie_id == DictGet(Column(dm, "original_id"),
                                     Column(dm, "id"), df.rows[idx].id)
             genres == df.rows[idx].genres
         IN BridgeRows(df, idx + 1, dm, dg,
                IF ~genres.ok THEN list
                ELSE BridgeScan(genres.items, 1, new_movie_id,
                                Range(Column(dg, "id")), list))

\* build_bridge_movie_genre (etl.py 322-360): [exc, df]. Line 332 reads
\* dim_genre['name'] and dim_genre['id'] outside any try, which raises
\* KeyError on the column-less frame of an empty genre list.
build_bridge_movie_genre(df, dm, dg) ==
    IF ~({"id", "name"} \subseteq dg.cols)
    THEN [exc |-> "KeyError", df |-> NoFrame]
    ELSE [exc |-> "none",
          df |-> InsertId(DataFrame(BridgeRows(df, 1, dm, dg, <<>>),
                                    {"movie_id", "genre_id"}))]

\* -------------------------------------------------------- fact builder
\* etl.py 395-400: the first Director whose id is in dim_director; an
\* exception (no record, no 'id' column) is passed over (etl.py 401-402)
RECURSIVE FirstDirector(_, _, _)
FirstDirector(crew, i, dd) ==
    IF i > Len(crew) \/ ~crew[i].isrec THEN None
    ELSE IF crew[i].job = "Director"
         THEN IF "id" \notin dd.cols THEN None
              ELSE IF crew[i].key \in Range(Column(dd, "id"))
                   THEN crew[i].key
                   ELSE FirstDirector(crew, i + 1, dd)
         ELSE FirstDirector(crew, i + 1, dd)

DirectorOf(credit_row, dd) ==
    IF ~credit_row.crew.ok THEN None
    ELSE FirstDirector(credit_row.crew.items, 1, dd)

\* etl.py 386-402: the dict movie_id -> director id, as the value
\* .get(movie_id) returns
movie_to_director(cdf, dd, movie_id) ==
    LET hits == {j \in 1..Len(cdf.rows) :
                    /\ cdf.rows[j].movie_id = movie_id
                    /\ DirectorOf(cdf.rows[j], dd) # None}
    IN IF hits = {} THEN None ELSE DirectorOf(cdf.rows[Max(hits)], dd)

\* etl.py 413-417 and 446-450: the surrogate id of the row matching the
\* code of the first list entry
CodeMatch(value, dim, code) ==
    IF ~value.ok \/ value.items = <<>> THEN None
    ELSE IF ~value.items[1].isrec THEN None
    ELSE IF code \notin dim.cols THEN None
    ELSE LET match == {i \in 1..Len(dim.rows) :
                          dim.rows[i][code] = value.items[1].key}
         IN IF match = {} THEN None ELSE dim.rows[Min(match)].id

movie_to_language(row, dl) == CodeMatch(row.spoken_languages, dl, "iso_639_1")

movie_to_country(row, dc) ==
    CodeMatch(row.production_countries, dc, "iso_3166_1")

\* the slip of taking the first company's id without looking it up
movie_to_company_unchecked(row, dpc) ==
    LET value == row.production_companies IN
    IF ~value.ok \/ value.items = <<>> THEN None
    ELSE IF ~value.items[1].isrec THEN None
    ELSE value.items[1].key

\* etl.py 430-433: the natural id of the first company, if it is in the
\* dimension
movie_to_company(row, dpc) ==
    LET value == row.production_companies IN
    IF ~value.ok \/ value.items = <<>> THEN None
    ELSE IF ~value.items[1].isrec THEN None
    ELSE IF "id" \notin dpc.cols THEN None
    ELSE IF value.items[1].key \in Range(Column(dpc, "id"))
         THEN value.items[1].key ELSE None

\* the slip of numbering the days from 0
DateIdZeroBased(release_date, dd) ==
    IF release_date # NaT /\ release_date \in dd.start..dd.end
    THEN release_date - dd.start ELSE 1

\* etl.py 461-465: date_to_id.get(release_date.date(), 1)
DateId(release_date, dd) ==
    IF release_date # NaT /\ release_date \in dd.start..dd.end
    THEN release_date - dd.start + 1 ELSE 1

\* int(NaN) raises ValueError (etl.py 475-476)
FactRowRaises(row) == row.budget = NaN \/ row.revenue = NaN

\* etl.py 459: movie_id = idx + 1, enumerate's idx being 0-based; idx
\* of the model is the 1-based row position
MovieInfoIdZeroBased(idx) == idx - 1
MovieInfoId(idx) == idx

FactRow(idx, row, cdf, dd, ddir, dl, dpc, dc) ==
    [movie_info_id |-> MovieInfoId(idx),
     release_date_id |-> DateId(row.release_date, dd),
     director_id |-> movie_to_director(cdf, ddir, row.id),
     language_id |-> movie_to_language(row, dl),
     company_id |-> movie_to_company(row, dpc),
     country_id |-> movie_to_country(row, dc),
     date_id |-> DateId(row.release_date, dd),
     budget |-> row.budget,
     revenue |-> row.revenue,
     popularity |-> row.popularity,
     vote_average |-> row.vote_average,
     runtime |-> IF row.runtime # NaN THEN row.runtime ELSE None]

\* etl.py 454-483: a row whose construction raises is skipped
RECURSIVE FactRows(_, _, _, _, _, _, _, _, _)
FactRows(df, idx, cdf, dd, ddir, dl, dpc, dc, list) ==
    IF idx > Len(df.rows) THEN list
    ELSE FactRows(df, idx + 1, cdf, dd, ddir, dl, dpc, dc,
             IF FactRowRaises(df.rows[idx]) THEN list
             ELSE Append(list, FactRow(idx, df.rows[idx], cdf, dd, ddir,
                                       dl, dpc, dc)))

FactCols == {"movie_info_id", "release_date_id", "director_id",
             "language_id", "company_id", "country_id", "date_id", "budget",
             "revenue", "popularity", "vote_average", "runtime"}

build_fact_movie_release(df, cdf, dm, dd, ddir, dl, dpc, dc) ==
    InsertId(DataFrame(FactRows(df, 1, cdf, dd, ddir, dl, dpc, dc, <<>>),
                       FactCols))

\* -------------------------------------------------------------- cleaner
\* raw cell values: a number, NaN (missing) or Garbage (unparseable text)
Garbage == -3

\* pd.to_numeric(x, errors='coerce')
ToNumeric(x) == IF x = Garbage THEN NaN ELSE x
\* pd.to_datetime(x, errors='coerce')
ToDatetime(x) == IF x \in {Garbage, NaN} THEN NaT ELSE x
\* the slip of leaving out .fillna
FillNaForgotten(x, v) == x
FillNa(x, v) == IF x = NaN THEN v ELSE x

\* the slip keep='last'
RECURSIVE DropDuplicatesKeepLast(_, _, _, _)
DropDuplicatesKeepLast(rows, key, i, kept) ==
    IF i > Len(rows) THEN kept
    ELSE IF \E j \in i + 1..Len(rows) : rows[j][key] = rows[i][key]
         THEN DropDuplicatesKeepLast(rows, key, i + 1, kept)
         ELSE DropDuplicatesKeepLast(rows, key, i + 1, Append(kept, rows[i]))

\* the slip of leaving out drop_duplicates
DropDuplicatesForgotten(rows, key, i, kept) == rows

\* the slip of collecting the kept rows in front of the earlier ones
RECURSIVE DropDuplicatesReversed(_, _, _, _)
DropDuplicatesReversed(rows, key, i, kept) ==
    IF i > Len(rows) THEN kept
    ELSE IF \E j \in 1..Len(kept) : kept[j][key] = rows[i][key]
         THEN DropDuplicatesReversed(rows, key, i + 1, kept)
         ELSE DropDuplicatesReversed(rows, key, i + 1, <<rows[i]>> \o kept)

\* df.drop_duplicates(subset=[key]): keep='first'
RECURSIVE DropDuplicates(_, _, _, _)
DropDuplicates(rows, key, i, kept) ==
    IF i > Len(rows) THEN kept
    ELSE IF \E j \in 1..Len(kept) : kept[j][key] = rows[i][key]
         THEN DropDuplicates(rows, key, i + 1, kept)
         ELSE DropDuplicates(rows, key, i + 1, Append(kept, rows[i]))

\* the texts '' (etl.py 74-75) and 'en' (etl.py 76); a text of a source
\* file is a positive number
EmptyString == -4
En == -5

\* the slip of leaving the tagline out of the fills
CleanMovieRowTaglineForgotten(row) ==
    [row EXCEPT !.release_date = ToDatetime(@),
                !.popularity = FillNa(ToNumeric(@), 0),
                !.vote_average = FillNa(ToNumeric(@), 0),
                !.budget = FillNa(ToNumeric(@), 0),
                !.revenue = FillNa(ToNumeric(@), 0),
                !.runtime = FillNa(ToNumeric(@), 0),
                !.overview = FillNa(@, EmptyString),
                !.original_language = FillNa(@, En)]

\* etl.py 66-76: title and status are not touched
CleanMovieRow(row) ==
    [row EXCEPT !.release_date = ToDatetime(@),
                !.popularity = FillNa(ToNumeric(@), 0),
                !.vote_average = FillNa(ToNumeric(@), 0),
                !.budget = FillNa(ToNumeric(@), 0),
                !.revenue = FillNa(ToNumeric(@), 0),
                !.runtime = FillNa(ToNumeric(@), 0),
                !.overview = FillNa(@, EmptyString),
                !.tagline = FillNa(@, EmptyString),
                !.original_language = FillNa(@, En)]

\* clean_movies (etl.py 58-80)
clean_movies(df) ==
    LET kept == DropDuplicates(df.rows, "id", 1, <<>>) IN
    [cols |-> df.cols,
     rows |-> [i \in 1..Len(kept) |-> CleanMovieRow(kept[i])]]

\* clean_credits (etl.py 82-91)
clean_credits(df) ==
    [cols |-> df.cols, rows |-> DropDuplicates(df.rows, "movie_id", 1, <<>>)]

\* ------------------------------------------------------- bounded inputs
Unparseable == [ok |-> FALSE, items |-> <<>>]
Parsed(items) == [ok |-> TRUE, items |-> items]

Elems == {[isrec |-> FALSE, key |-> 0]}
         \cup {[isrec |-> TRUE, key |-> k] : k \in Keys}

CrewElems == {[isrec |-> FALSE, key |-> 0, job |-> "Other"],
              [isrec |-> TRUE, key |-> 1, job |-> "Other"]}
             \cup {[isrec |-> TRUE, key |-> k, job |-> "Director"] :
                      k \in Keys}

\* the columns of r nested values holding at most n elements in all
RECURSIVE ColumnsOf(_, _, _)
ColumnsOf(E, r, n) ==
    IF r = 0 THEN {<<>>}
    ELSE UNION {
        {<<v>> \o c :
            v \in {Parsed(s) : s \in [1..k -> E]}
                  \cup (IF k = 0 THEN {Unparseable} ELSE {}),
            c \in ColumnsOf(E, r - 1, n - k)} : k \in 0..n}

Default == Parsed(<<[isrec |-> TRUE, key |-> 1]>>)
DefaultCrew == Parsed(<<[isrec |-> TRUE, key |-> 1, job |-> "Director"]>>)

NestedColumns == {"genres", "production_companies", "spoken_languages",
                  "production_countries"}
NumericColumns == {"popularity", "vote_average", "budget", "revenue",
                   "runtime"}
TextColumns == {"title", "overview", "tagline", "status",
                "original_language"}
MovieCols == {"id", "release_date"} \cup TextColumns \cup NumericColumns
             \cup NestedColumns
CreditCols == {"movie_id", "title", "crew"}

\* The i-th movie row of a source file: natural id, the title and the
\* other texts stand for the row's own text (the title tells two rows of
\* one id apart), valid numbers, nested value v in column focus (in every nested column when
\* focus is "all") and well-formed one-element lists in the other nested
\* columns.
MovieRow(i, id, date, focus, v) ==
    [c \in MovieCols |->
        CASE c = "id" -> id
          [] c \in TextColumns -> i
          [] c = "release_date" -> date
          [] c \in NumericColumns -> i
          [] c = focus \/ focus = "all" -> v
          [] OTHER -> Default]

CreditRow(j, movie_id, v) == [movie_id |-> movie_id, title |-> j, crew |-> v]

Frame(cols, rows) == [cols |-> cols, rows |-> rows]

\* Cleaned inputs (distinct natural ids IdOffset + i, valid numbers): one
\* nested column, or the crew, or the release date ranges over every
\* value within the bounds, the other columns are well formed. Credit
\* rows come in the reverse order of the movie rows.
Columns(E) == UNION {ColumnsOf(E, r, MaxItems) : r \in 0..MaxRows}

NestedMovies(f, col) ==
    Frame(MovieCols, [i \in 1..Len(col) |->
                         MovieRow(i, IdOffset + i, 1, f, col[i])])
DefaultCredits(n) ==
    Frame(CreditCols, [j \in 1..n |->
                          CreditRow(j, IdOffset + n + 1 - j, DefaultCrew)])
CrewCredits(col) ==
    Frame(CreditCols, [j \in 1..Len(col) |->
                          CreditRow(j, IdOffset + MaxRows + 1 - j, col[j])])
DatedMovies(ds) ==
    Frame(MovieCols, [i \in 1..Len(ds) |->
                         MovieRow(i, IdOffset + i, ds[i], "genres", Default)])

CleanedInputs(m, c) ==
    \/ \E f \in NestedColumns \cup {"all"} : \E col \in Columns(Elems) :
           m = NestedMovies(f, col) /\ c = DefaultCredits(Len(col))
    \/ \E col \in Columns(CrewElems) :
           m = NestedMovies("genres", [i \in 1..MaxRows |-> Default])
           /\ c = CrewCredits(col)
    \/ \E r \in 0..MaxRows : \E ds \in [1..r -> 0..MaxDay] :
           m = DatedMovies(ds) /\ c = Frame(CreditCols, <<>>)

\* Raw source files: natural ids repeat, and a row has at most one cell
\* that is missing (NaN: a number, a date or a text) or is no date / no
\* number (Garbage).
RawIds == {IdOffset + 1, IdOffset + 2}
Defects == {<<"none", 0>>}
           \cup ((NumericColumns \cup {"release_date"}) \X {NaN, Garbage})
           \cup (TextColumns \X {NaN})

RawMovieRow(i, id, defect) ==
    [c \in MovieCols |->
        IF c = defect[1] THEN defect[2]
        ELSE MovieRow(i, id, 1 + (i % MaxDay), "genres", Default)[c]]

\* the two source files: a credit row per movie row, in reverse order
RawInputs(m, c) ==
    \E r \in 0..MaxRows :
        \E ids \in [1..r -> RawIds] : \E defects \in [1..r -> Defects] :
            /\ m = Frame(MovieCols,
                   [i \in 1..r |-> RawMovieRow(i, ids[i], defects[i])])
            /\ c = Frame(CreditCols,
                   [j \in 1..r |-> CreditRow(j, ids[r + 1 - j], DefaultCrew)])

NoExc == [type |-> "none", at |-> "none"]
Raise(type, at) == [type |-> type, at |-> at]

EmptyGold ==
    /\ dim_date = [start |-> 0, end |-> 0]
    /\ dim_movie = NoFrame
    /\ dim_genre = NoFrame
    /\ dim_director = NoFrame
    /\ dim_production_company = NoFrame
    /\ dim_language = NoFrame
    /\ dim_country = NoFrame
    /\ bridge_df = NoFrame
    /\ fact_df = NoFrame

\* ------------------------------------------- snapshot files and store
SilverFiles == {"movies_silver", "credits_silver"}
GoldTables == {"dim_date", "dim_movie", "dim_genre", "dim_director",
               "dim_production_company", "dim_language", "dim_country",
               "bridge_movie_genre", "fact_movie_release"}

\* df.to_parquet(path): the file is created or replaced
ToParquet(fs, name, content) ==
    [n \in DOMAIN fs \cup {name} |-> IF n = name THEN content ELSE fs[n]]

\* save_silver (etl.py 93-104)
save_silver(fs, mdf, cdf) ==
    ToParquet(ToParquet(fs, "movies_silver", mdf), "credits_silver", cdf)

\* a table without rows; the date table is held as a span, like dim_date
EmptySpan == [start |-> 1, end |-> 0]
EmptyTable(t) == IF t = "dim_date" THEN EmptySpan ELSE NoFrame

RowCount(t, content) ==
    IF t = "dim_date" THEN DimDateLen(content) ELSE Len(content.rows)

\* the values of the table's primary key column id
PrimaryKeys(t, content) ==
    IF t = "dim_date" THEN 1..DimDateLen(content)
    ELSE IF "id" \in content.cols
         THEN {content.rows[i].id : i \in 1..Len(content.rows)}
         ELSE {}

\* sqlite rejects the commit of a batch that repeats a primary key of
\* the table or of the batch itself (IntegrityError)
IntegrityError(t, table, batch) ==
    \/ \E k \in PrimaryKeys(t, batch) : k \in PrimaryKeys(t, table)
    \/ Cardinality(PrimaryKeys(t, batch)) # RowCount(t, batch)

\* the table after the batch's rows are committed
Committed(t, table, batch) ==
    IF RowCount(t, batch) = 0 THEN table
    ELSE IF RowCount(t, table) = 0 THEN batch
    ELSE [cols |-> table.cols \cup batch.cols,
          rows |-> table.rows \o batch.rows]

\* SQLModel.metadata.create_all / a new warehouse.db: every table empty
EmptyDb == [t \in GoldTables |-> EmptyTable(t)]

\* the order in which load_gold_to_database loads tables (etl.py 531-609)
LoadOrder == <<"dim_movie", "dim_date", "dim_country", "dim_genre",
               "dim_director", "dim_language", "dim_production_company",
               "fact_movie_release">>

Faults == {"none", "read", "commit"}

\* Session(engine) (etl.py 520): a transaction that takes commits, and
\* no object added and not yet committed
NewSession == [active |-> TRUE, pending |-> <<>>]

\* the flush of a commit: the pending batches, in the order they were
\* added, each into its own table
RECURSIVE Flushed(_, _)
Flushed(store, pending) ==
    IF pending = <<>> THEN store
    ELSE LET t == pending[1].table IN
         Flushed([store EXCEPT ![t] = Committed(t, @, pending[1].batch)],
                 Tail(pending))

FlushRaises(store, pending) ==
    \E i \in 1..Len(pending) :
        IntegrityError(pending[i].table, store[pending[i].table],
                       pending[i].batch)

\* the slip of a failed commit that keeps the added rows in a session
\* that still takes commits
AfterFailedCommitKeepsRows(added) == [active |-> TRUE, pending |-> added]
\* a commit whose flush raises rolls the transaction back, which
\* expunges the added objects, and leaves the session unable to commit
\* until session.rollback(), which the handlers never call
AfterFailedCommit(added) == [active |-> FALSE, pending |-> <<>>]

\* One try block of the loader (etl.py 531-539 and the seven after it)
\* under an environment fault: read_parquet raises ("read"), or the
\* rows are added (the table models do not validate, so neither their
\* constructor nor session.add raises) and commit raises ("commit", a
\* repeated primary key, or a session whose transaction an earlier
\* failed commit left rolled back: PendingRollbackError, the rows stay
\* pending). Every exception is logged by the block's handler.
LoadTable(t, batch, store, sess, fault) ==
    LET added == Append(sess.pending, [table |-> t, batch |-> batch]) IN
    IF fault = "read"
    THEN [db |-> store, session |-> sess, outcome |-> "failed"]
    ELSE IF ~sess.active
    THEN [db |-> store, session |-> [sess EXCEPT !.pending = added],
          outcome |-> "failed"]
    ELSE IF fault = "commit" \/ FlushRaises(store, added)
    THEN [db |-> store, session |-> AfterFailedCommit(added),
          outcome |-> "failed"]
    ELSE [db |-> Flushed(store, added), session |-> NewSession,
          outcome |-> "loaded"]

NoFiles == [n \in {} |-> NoFrame]

\* lifespan has not reached the indexing (main.py 41)
NotIndexed == [outcome |-> "none", count |-> None, upserted |-> 0]

EmptyStore ==
    /\ db = EmptyDb
    /\ session = NewSession
    /\ load_log = <<>>
    /\ starts = 1
    /\ faults = 0
    /\ collection = {}
    /\ indexing = NotIndexed

\* ---------------------------------------------------- ETLPipeline.run
\* Phase 1 of run (etl.py 621-624)
InitClean ==
    /\ pc = "read_bronze"
    /\ exc = NoExc
    /\ RawInputs(bronze_movies, bronze_credits)
    /\ movies_df = NoFrame
    /\ credits_df = NoFrame
    /\ EmptyGold
    /\ files = NoFiles
    /\ EmptyStore

ReadBronze ==
    /\ pc = "read_bronze"
    /\ movies_df' = bronze_movies
    /\ credits_df' = bronze_credits
    /\ pc' = "clean_movies"
    /\ UNCHANGED warehouse
    /\ UNCHANGED <<exc, bronze, dims, gold>>

CleanMovies ==
    /\ pc = "clean_movies"
    /\ movies_df' = clean_movies(movies_df)
    /\ pc' = "clean_credits"
    /\ UNCHANGED warehouse
    /\ UNCHANGED <<exc, bronze, credits_df, dims, gold>>

CleanCredits ==
    /\ pc = "clean_credits"
    /\ credits_df' = clean_credits(credits_df)
    /\ pc' = "save_silver"
    /\ UNCHANGED warehouse
    /\ UNCHANGED <<exc, bronze, movies_df, dims, gold>>

NextClean == ReadBronze \/ CleanMovies \/ CleanCredits

SpecClean == InitClean /\ [][NextClean]_vars

\* Phase 2 of run (etl.py 628-656): the builders in call order, from
\* cleaned tables. An exception leaving a builder goes to run's handler
\* (etl.py 670-672).
Init ==
    /\ pc = "build_dim_date"
    /\ exc = NoExc
    /\ CleanedInputs(movies_df, credits_df)
    /\ bronze_movies = movies_df
    /\ bronze_credits = credits_df
    /\ EmptyGold
    /\ files = save_silver(NoFiles, movies_df, credits_df)
    /\ EmptyStore

BuildDimDate ==
    /\ pc = "build_dim_date"
    /\ dim_date' = build_dim_date(movies_df)
    /\ pc' = "build_dim_movie"
    /\ UNCHANGED warehouse
    /\ UNCHANGED <<exc, inputs, dim_movie, dim_genre, dim_director,
                   dim_production_company, dim_language, dim_country, gold>>

BuildDimMovie ==
    /\ pc = "build_dim_movie"
    /\ dim_movie' = build_dim_movie(movies_df)
    /\ pc' = "build_dim_genre"
    /\ UNCHANGED warehouse
    /\ UNCHANGED <<exc, inputs, dim_date, dim_genre, dim_director,
                   dim_production_company, dim_language, dim_country, gold>>

BuildDimGenre ==
    /\ pc = "build_dim_genre"
    /\ dim_genre' = build_dim_genre(movies_df)
    /\ pc' = "build_dim_director"
    /\ UNCHANGED warehouse
    /\ UNCHANGED <<exc, inputs, dim_date, dim_movie, dim_director,
                   dim_production_company, dim_language, dim_country, gold>>

BuildDimDirector ==
    /\ pc = "build_dim_director"
    /\ dim_director' = build_dim_director(credits_df)
    /\ pc' = "build_dim_production_company"
    /\ UNCHANGED warehouse
    /\ UNCHANGED <<exc, inputs, dim_date, dim_movie, dim_genre,
                   dim_production_company, dim_language, dim_country, gold>>

BuildDimProductionCompany ==
    /\ pc = "build_dim_production_company"
    /\ dim_production_company' = build_dim_production_company(movies_df)
    /\ pc' = "build_dim_language"
    /\ UNCHANGED warehouse
    /\ UNCHANGED <<exc, inputs, dim_date, dim_movie, dim_genre, dim_director,
                   dim_language, dim_country, gold>>

BuildDimLanguage ==
    /\ pc = "build_dim_language"
    /\ LET res == build_dim_language(movies_df) IN
        /\ exc' = IF res.exc = "none" THEN NoExc ELSE Raise(res.exc, pc)
        /\ dim_language' = res.df
        /\ pc' = IF res.exc = "none" THEN "build_dim_country" ELSE "except"
    /\ UNCHANGED warehouse
    /\ UNCHANGED <<inputs, dim_date, dim_movie, dim_genre, dim_director,
                   dim_production_company, dim_country, gold>>

BuildDimCountry ==
    /\ pc = "build_dim_country"
    /\ dim_country' = build_dim_country(movies_df)
    /\ pc' = "build_bridge_movie_genre"
    /\ UNCHANGED warehouse
    /\ UNCHANGED <<exc, inputs, dim_date, dim_movie, dim_genre, dim_director,
                   dim_production_company, dim_language, gold>>

BuildBridgeMovieGenre ==
    /\ pc = "build_bridge_movie_genre"
    /\ LET res == build_bridge_movie_genre(movies_df, dim_movie, dim_genre) IN
        /\ exc' = IF res.exc = "none" THEN NoExc ELSE Raise(res.exc, pc)
        /\ bridge_df' = res.df
        /\ pc' = IF res.exc = "none" THEN "build_fact_movie_release"
                 ELSE "except"
    /\ UNCHANGED warehouse
    /\ UNCHANGED <<inputs, dims, fact_df>>

BuildFactMovieRelease ==
    /\ pc = "build_fact_movie_release"
    /\ fact_df' = build_fact_movie_release(movies_df, credits_df, dim_movie,
                      dim_date, dim_director, dim_language,
                      dim_production_company, dim_country)
    /\ pc' = "save_gold"
    /\ UNCHANGED warehouse
    /\ UNCHANGED <<exc, inputs, dims, bridge_df>>

\* etl.py 670-672: log and re-raise to the caller
RunExcept ==
    /\ pc = "except"
    /\ pc' = "raised"
    /\ UNCHANGED warehouse
    /\ UNCHANGED <<exc, inputs, dims, gold>>

Next ==
    \/ BuildDimDate
    \/ BuildDimMovie
    \/ BuildDimGenre
    \/ BuildDimDirector
    \/ BuildDimProductionCompany
    \/ BuildDimLanguage
    \/ BuildDimCountry
    \/ BuildBridgeMovieGenre
    \/ BuildFactMovieRelease
    \/ RunExcept

Spec == Init /\ [][Next]_vars

\* Phase 2 of run from cleaned tables with shorter lists, for the
\* comparison of a run with the runs on the same rows in every other
\* order
ShortColumns(E) == UNION {ColumnsOf(E, r, MaxOrderItems) : r \in 0..MaxRows}

OrderInputs(m, c) ==
    \/ \E f \in NestedColumns \cup {"all"} : \E col \in ShortColumns(Elems) :
           m = NestedMovies(f, col) /\ c = DefaultCredits(Len(col))
    \/ \E col \in ShortColumns(CrewElems) :
           m = NestedMovies("genres", [i \in 1..MaxRows |-> Default])
           /\ c = CrewCredits(col)
    \/ \E r \in 0..MaxRows : \E ds \in [1..r -> 0..MaxDay] :
           m = DatedMovies(ds) /\ c = Frame(CreditCols, <<>>)

InitOrder ==
    /\ pc = "build_dim_date"
    /\ exc = NoExc
    /\ OrderInputs(movies_df, credits_df)
    /\ bronze_movies = movies_df
    /\ bronze_credits = credits_df
    /\ EmptyGold
    /\ files = save_silver(NoFiles, movies_df, credits_df)
    /\ EmptyStore

SpecOrder == InitOrder /\ [][Next]_vars

\* ------------------------------------- application startup (lifespan)
\* Source files as a process start finds them: up to MaxRows movies of
\* natural ids IdOffset + i (the last row repeats the id of the first
\* when dup), valid numbers and well-formed lists, but for one damaged
\* cell and one varied nested value in the first row. A credit row per
\* movie row, in reverse order.
Measures == {"popularity", "vote_average", "budget", "revenue"}
AppDefects == {<<"none", 0>>} \cup (NumericColumns \X {NaN, Garbage})
AppNested == {<<"genres", Default>>,
              <<"genres", Parsed(<<[isrec |-> TRUE, key |-> 2],
                                   [isrec |-> TRUE, key |-> 1]>>)>>,
              <<"genres", Parsed(<<>>)>>,
              <<"spoken_languages", Unparseable>>}

AppMovieRow(i, id, defect, nested) ==
    [c \in MovieCols |->
        IF c = defect[1] THEN defect[2]
        ELSE MovieRow(i, id, 1 + (i % MaxDay), nested[1], nested[2])[c]]

AppInputs(m, c) ==
    \E r \in 0..MaxRows : \E dup \in BOOLEAN :
        \E defect \in AppDefects : \E nested \in AppNested :
            LET id(i) == IF dup /\ i = r THEN IdOffset + 1 ELSE IdOffset + i
            IN /\ m = Frame(MovieCols,
                     [i \in 1..r |->
                         AppMovieRow(i, id(i),
                             IF i = 1 THEN defect ELSE <<"none", 0>>,
                             IF i = 1 THEN nested ELSE <<"genres", Default>>)])
               /\ c = Frame(CreditCols,
                     [j \in 1..r |->
                         CreditRow(j, id(r + 1 - j), DefaultCrew)])

InitApp ==
    /\ pc = "read_bronze"
    /\ exc = NoExc
    /\ AppInputs(bronze_movies, bronze_credits)
    /\ movies_df = NoFrame
    /\ credits_df = NoFrame
    /\ EmptyGold
    /\ files = NoFiles
    /\ EmptyStore

\* read_bronze on an unreadable source file (etl.py 50-51): read_csv
\* raises, and run's handler takes it
ReadBronzeRaises ==
    /\ pc = "read_bronze"
    /\ faults < MaxFaults
    /\ faults' = faults + 1
    /\ exc' = Raise("FileNotFoundError", pc)
    /\ pc' = "except"
    /\ UNCHANGED <<inputs, dims, gold, files, db, session, load_log, starts,
                   collection, indexing>>

SaveSilver ==
    /\ pc = "save_silver"
    /\ files' = save_silver(files, movies_df, credits_df)
    /\ pc' = "build_dim_date"
    /\ UNCHANGED <<exc, inputs, dims, gold, db, session, load_log, starts,
                   faults, collection, indexing>>

\* the dict dims of run (etl.py 636-644)
DimsDict ==
    [dim_date |-> dim_date, dim_movie |-> dim_movie, dim_genre |-> dim_genre,
     dim_director |-> dim_director,
     dim_production_company |-> dim_production_company,
     dim_language |-> dim_language, dim_country |-> dim_country]

\* save_gold (etl.py 492-512): a file per dimension, the bridge, the fact
save_gold(fs, dms, bridge, fact) ==
    [n \in DOMAIN fs \cup GoldTables |->
        IF n \in DOMAIN dms THEN dms[n]
        ELSE IF n = "bridge_movie_genre" THEN bridge
        ELSE IF n = "fact_movie_release" THEN fact
        ELSE fs[n]]

SaveGold ==
    /\ pc = "save_gold"
    /\ files' = save_gold(files, DimsDict, bridge_df, fact_df)
    /\ pc' = "create_db_and_tables"
    /\ UNCHANGED <<exc, inputs, dims, gold, db, session, load_log, starts,
                   faults, collection, indexing>>

\* create_db_and_tables (database.py 15-16): create_all leaves the
\* tables that exist as they are
CreateDbAndTables ==
    /\ pc = "create_db_and_tables"
    /\ pc' = "load_gold_to_database"
    /\ UNCHANGED <<exc, inputs, dims, gold, warehouse>>

LoadPcs == <<"load_dim_movie", "load_dim_date", "load_dim_country",
             "load_dim_genre", "load_dim_director", "load_dim_language",
             "load_dim_production_company", "load_fact_movie_release">>

Skipped == <<[table |-> "all", outcome |-> "skipped"]>>

\* the slip of counting the rows of a table the loader never fills
SkipCheckOnBridge == "bridge_movie_genre"
\* the table whose rows the loader counts to decide the skip
\* (etl.py 522: select(func.count(DimMovie.id)))
SkipCheckTable == "dim_movie"

\* the slip of a handler that re-raises
AfterLoadReraises(n, outcome) ==
    IF outcome = "failed" THEN "except"
    ELSE IF n < Len(LoadOrder) THEN LoadPcs[n + 1] ELSE "run_returned"
\* where the loader goes after the n-th try block: its handler logs
\* the exception and falls through to the next block (etl.py 538-539)
AfterLoad(n, outcome) ==
    IF n < Len(LoadOrder) THEN LoadPcs[n + 1] ELSE "run_returned"

\* load_gold_to_database, the skip decision (etl.py 520-529)
LoadGoldToDatabase ==
    /\ pc = "load_gold_to_database"
    /\ session' = NewSession
    /\ IF RowCount(SkipCheckTable, db[SkipCheckTable]) > 0
       THEN load_log' = Skipped /\ pc' = "run_returned"
       ELSE load_log' = <<>> /\ pc' = LoadPcs[1]
    /\ UNCHANGED <<exc, inputs, dims, gold, files, db, starts, faults,
                   collection, indexing>>

\* load_gold_to_database, one try block (etl.py 531-609)
LoadNextTable ==
    \E n \in 1..Len(LoadOrder) : \E fault \in Faults :
        /\ pc = LoadPcs[n]
        /\ fault # "none" => faults < MaxFaults
        /\ LET t == LoadOrder[n]
               res == LoadTable(t, files[t], db, session, fault)
           IN /\ db' = res.db
              /\ session' = res.session
              /\ load_log' = Append(load_log,
                                    [table |-> t, outcome |-> res.outcome])
              /\ pc' = AfterLoad(n, res.outcome)
        /\ faults' = IF fault = "none" THEN faults ELSE faults + 1
        /\ UNCHANGED <<exc, inputs, dims, gold, files, starts, collection,
                       indexing>>

\* the ids of the documents index_movies builds (typesense_indexer.py
\* 107-150): one document per pair of a DimMovie row and a fact row of
\* that movie, its id the movie's surrogate key
Documents(store) ==
    LET m == store.dim_movie.rows
        f == store.fact_movie_release.rows
    IN Flatten([i \in 1..Len(m) |->
           LET facts == SelectSeq(f, LAMBDA r : r.movie_info_id = m[i].id)
           IN [k \in 1..Len(facts) |-> m[i].id]])

BatchSize == 500
NBatches(n) == (n + BatchSize - 1) \div BatchSize
Batch(documents, b) ==
    SubSeq(documents, (b - 1) * BatchSize + 1,
           Min({b * BatchSize, Len(documents)}))

\* the loop over the batches (typesense_indexer.py 154-158): ok[b] is
\* what upsert_documents returns for batch b (typesense_client.py
\* 112-132: False when the import raised), which the loop does not look
\* at; upserted counts the documents of the batches that went through
RECURSIVE IndexBatches(_, _, _, _)
IndexBatches(documents, b, ok, res) ==
    IF b > NBatches(Len(documents)) THEN res
    ELSE LET batch == Batch(documents, b) IN
         IndexBatches(documents, b + 1, ok,
             [collection |-> IF ok[b] THEN res.collection \cup Range(batch)
                             ELSE res.collection,
              upserted |-> IF ok[b] THEN res.upserted + Len(batch)
                           ELSE res.upserted,
              indexed_count |-> res.indexed_count + Len(batch)])

\* The select of index_movies (typesense_indexer.py 107-111) names
\* FactMovieRelease.release_date_id, a field that the model class has
\* only inside a string literal (fact_movie_release.py 15-20): with the
\* class as it stands building the query raises AttributeError. The
\* outcome in which the query yields the join rows is kept beside it, so
\* that the statements after the query are modelled as they are written.
SelectOutcomes == {"AttributeError", "rows"}

\* lifespan after etl.run() returned (main.py 41-56): when Typesense
\* answers the health check the indexer reads the store and upserts the
\* documents batch by batch; whatever index_movies raises is logged
\* (typesense_indexer.py 163-165, main.py 53-54), then the handler
\* yields. A Typesense that does not answer, or that rejects a batch,
\* is a fault of the environment.
IndexMovies ==
    /\ pc = "run_returned"
    /\ pc' = "yield"
    /\ \E healthy \in BOOLEAN : \E query \in SelectOutcomes :
       \E ok \in [1..NBatches(Len(Documents(db))) -> BOOLEAN] :
           LET fault == ~healthy \/ \E b \in DOMAIN ok : ~ok[b]
               res == IndexBatches(Documents(db), 1, ok,
                          [collection |-> collection, upserted |-> 0,
                           indexed_count |-> 0])
           IN /\ fault => faults < MaxFaults
              /\ faults' = IF fault THEN faults + 1 ELSE faults
              /\ IF ~healthy
                 THEN /\ indexing' = [NotIndexed EXCEPT
                                         !.outcome = "unavailable"]
                      /\ collection' = collection
                 ELSE IF query = "AttributeError"
                 THEN /\ indexing' = [NotIndexed EXCEPT !.outcome = "raised"]
                      /\ collection' = collection
                 ELSE /\ indexing' = [outcome |-> "returned",
                                      count |-> res.indexed_count,
                                      upserted |-> res.upserted]
                      /\ collection' = res.collection
    /\ UNCHANGED <<exc, inputs, dims, gold, files, db, session, load_log,
                   starts>>

\* the slip of logging the pipeline's exception without re-raising it
LifespanSwallows == "run_returned"
\* lifespan's handler of etl.run() (main.py 36-38): log and re-raise
LifespanHandler == "startup_failed"

LifespanExcept ==
    /\ pc = "raised"
    /\ pc' = LifespanHandler
    /\ UNCHANGED <<exc, inputs, dims, gold, warehouse>>

\* a later edition of the movies file: the last row is gone
LaterEdition(df) ==
    [df EXCEPT !.rows = SubSeq(@, 1, Len(@) - 1)]

\* the process is started again: the files and the store persist, the
\* source file is the same or a later edition
Restart ==
    /\ pc \in {"yield", "startup_failed"}
    /\ starts < MaxStarts
    /\ bronze_movies' \in {bronze_movies, LaterEdition(bronze_movies)}
    /\ starts' = starts + 1
    /\ pc' = "read_bronze"
    /\ exc' = NoExc
    /\ movies_df' = NoFrame
    /\ credits_df' = NoFrame
    /\ dim_date' = [start |-> 0, end |-> 0]
    /\ dim_movie' = NoFrame
    /\ dim_genre' = NoFrame
    /\ dim_director' = NoFrame
    /\ dim_production_company' = NoFrame
    /\ dim_language' = NoFrame
    /\ dim_country' = NoFrame
    /\ bridge_df' = NoFrame
    /\ fact_df' = NoFrame
    /\ session' = NewSession
    /\ load_log' = <<>>
    /\ indexing' = NotIndexed
    /\ UNCHANGED <<bronze_credits, files, db, faults, collection>>

NextApp ==
    \/ ReadBronze
    \/ ReadBronzeRaises
    \/ CleanMovies
    \/ CleanCredits
    \/ SaveSilver
    \/ Next
    \/ SaveGold
    \/ CreateDbAndTables
    \/ LoadGoldToDatabase
    \/ LoadNextTable
    \/ IndexMovies
    \/ LifespanExcept
    \/ Restart

SpecApp == InitApp /\ [][NextApp]_vars

\* the phases of run in call order
Phases == <<"read_bronze", "clean_movies", "clean_credits", "save_silver",
            "build_dim_date", "build_dim_movie", "build_dim_genre",
            "build_dim_director", "build_dim_production_company",
            "build_dim_language", "build_dim_country",
            "build_bridge_movie_genre", "build_fact_movie_release",
            "save_gold", "create_db_and_tables", "load_gold_to_database">>
          \o LoadPcs \o <<"run_returned", "yield">>
PhaseNo(p) == CHOOSE n \in 1..Len(Phases) : Phases[n] = p
\* phase p was entered / has returned normally
Called(p) ==
    IF pc \in {"except", "raised", "startup_failed"}
    THEN PhaseNo(p) <= PhaseNo(exc.at)
    ELSE PhaseNo(p) < PhaseNo(pc)
Returned(p) == Called(p) /\ exc.at # p

\* ============================================================== claims
\* Reference notions, written independently of the builders.

\* the ascending sequence of a finite set of integers
RECURSIVE Ascending(_)
Ascending(S) ==
    IF S = {} THEN <<>> ELSE <<Min(S)>> \o Ascending(S \ {Min(S)})

\* the first occurrences in s, in order
FirstSeen(s) ==
    LET firsts == {i \in 1..Len(s) : \A j \in 1..i - 1 : s[j] # s[i]}
        order == Ascending(firsts)
    IN [n \in 1..Len(order) |-> s[order[n]]]

\* The parsed list of a nested value (spec, sections 4.2 and 9): the
\* typed list of records, or the empty list when the value fails to parse
WellFormed(value) ==
    value.ok /\ \A i \in 1..Len(value.items) : value.items[i].isrec
ParsedList(value) == IF WellFormed(value) THEN value.items ELSE <<>>

\* what the scan of a value meets before it raises
ScannedList(value) ==
    IF ~value.ok THEN <<>>
    ELSE LET bad == {i \in 1..Len(value.items) : ~value.items[i].isrec} IN
         IF bad = {} THEN value.items
         ELSE SubSeq(value.items, 1, Min(bad) - 1)

IsEntity(e, directors) ==
    e.key # 0 /\ (directors => e.job = "Director")

\* the natural keys of a column of lists, each once, in first-seen order
NaturalKeys(lists, directors) ==
    LET flat == Flatten(lists)
        ents == SelectSeq(flat, LAMBDA e : IsEntity(e, directors))
    IN FirstSeen([i \in 1..Len(ents) |-> ents[i].key])

ParsedColumn(df, c) == [i \in 1..Len(df.rows) |-> ParsedList(df.rows[i][c])]
ScannedColumn(df, c) == [i \in 1..Len(df.rows) |-> ScannedList(df.rows[i][c])]

KeyColumn(dim, c) == IF c \in dim.cols THEN Column(dim, c) ELSE <<>>

Dense(ids) == \A i \in 1..Len(ids) : ids[i] = i

\* C1: each of the five nested-entity dimension tables holds exactly one
\* row per distinct natural key of the parsed nested lists (directors:
\* job = "Director"), in first-seen order, for every cleaned input.
C1_OneRowPerNaturalKey ==
    /\ Called("build_dim_genre") =>
        /\ Returned("build_dim_genre")
        /\ KeyColumn(dim_genre, "id")
             = NaturalKeys(ParsedColumn(movies_df, "genres"), FALSE)
    /\ Called("build_dim_director") =>
        /\ Returned("build_dim_director")
        /\ KeyColumn(dim_director, "id")
             = NaturalKeys(ParsedColumn(credits_df, "crew"), TRUE)
    /\ Called("build_dim_production_company") =>
        /\ Returned("build_dim_production_company")
        /\ KeyColumn(dim_production_company, "id")
             = NaturalKeys(ParsedColumn(movies_df, "production_companies"),
                           FALSE)
    /\ Called("build_dim_language") =>
        /\ Returned("build_dim_language")
        /\ KeyColumn(dim_language, "iso_639_1")
             = NaturalKeys(ParsedColumn(movies_df, "spoken_languages"), FALSE)
    /\ Called("build_dim_country") =>
        /\ Returned("build_dim_country")
        /\ KeyColumn(dim_country, "iso_3166_1")
             = NaturalKeys(ParsedColumn(movies_df, "production_countries"),
                           FALSE)

C3_FactMatchesDimMovie ==
    Returned("build_fact_movie_release") =>
        /\ Len(fact_df.rows) = Len(dim_movie.rows)
        /\ \A i \in 1..Len(fact_df.rows) :
               fact_df.rows[i].movie_info_id = dim_movie.rows[i].id

C3_Witness ==
    /\ Returned("build_fact_movie_release")
    /\ Len(fact_df.rows) = MaxRows
    /\ fact_df.rows[MaxRows].movie_info_id = MaxRows

DimensionBuilders == {"build_dim_genre", "build_dim_director",
                      "build_dim_production_company", "build_dim_language",
                      "build_dim_country"}

\* C4: a malformed nested field never aborts the pipeline: no dimension
\* builder raises, so run never raises out of one.
C4_BuildersNeverRaise == exc.at \notin DimensionBuilders

Movies == 1..Len(movies_df.rows)

\* C5: whatever the genres fields of the movies, the bridge builder does
\* not raise, and a movie whose genres field is empty or unparseable has
\* no bridge row and exactly one fact row.
C5_EmptyGenresHarmless ==
    /\ Movies # {} => exc.at # "build_bridge_movie_genre"
    /\ Returned("build_fact_movie_release") =>
        \A i \in Movies :
            ParsedList(movies_df.rows[i].genres) = <<>> =>
                /\ \A b \in 1..Len(bridge_df.rows) :
                       bridge_df.rows[b].movie_id # dim_movie.rows[i].id
                /\ Cardinality({f \in 1..Len(fact_df.rows) :
                       fact_df.rows[f].movie_info_id = dim_movie.rows[i].id})
                     = 1

\* C6: every bridge row's movie_id is the id of a DimMovie row and its
\* genre_id the id of a DimGenre row.
C6_BridgeReferencesExist ==
    Returned("build_bridge_movie_genre") =>
        \A b \in 1..Len(bridge_df.rows) :
            /\ bridge_df.rows[b].movie_id \in Range(KeyColumn(dim_movie, "id"))
            /\ bridge_df.rows[b].genre_id \in Range(KeyColumn(dim_genre, "id"))

C6_Witness ==
    /\ Returned("build_bridge_movie_genre")
    /\ Len(bridge_df.rows) >= 2
    /\ \E i \in Movies : \E n \in 1..Len(movies_df.rows[i].genres.items) :
           movies_df.rows[i].genres.items[n].key = 0

BridgePairs ==
    {<<bridge_df.rows[b].movie_id, bridge_df.rows[b].genre_id>> :
        b \in 1..Len(bridge_df.rows)}

\* C7: the bridge has a row (m, g) iff g occurs in the parsed genre list
\* of m's row and g is in DimGenre.
C7_BridgeIffInParsedList ==
    Returned("build_bridge_movie_genre") =>
        \A i \in Movies : \A g \in Keys :
            <<dim_movie.rows[i].id, g>> \in BridgePairs
            <=> /\ \E n \in 1..Len(ParsedList(movies_df.rows[i].genres)) :
                       ParsedList(movies_df.rows[i].genres)[n].key = g
                /\ g \in Range(KeyColumn(dim_genre, "id"))

\* C8: no two bridge rows carry the same (movie_id, genre_id) pair.
C8_BridgePairIsKey ==
    Returned("build_bridge_movie_genre") =>
        \A a, b \in 1..Len(bridge_df.rows) :
            (/\ bridge_df.rows[a].movie_id = bridge_df.rows[b].movie_id
             /\ bridge_df.rows[a].genre_id = bridge_df.rows[b].genre_id)
            => a = b

\* C9: in every fact row each foreign key is null or the id of a row of
\* its dimension table built in the same run.
C9_FactForeignKeysValid ==
    Returned("build_fact_movie_release") =>
        \A f \in 1..Len(fact_df.rows) :
            LET row == fact_df.rows[f] IN
            /\ row.release_date_id \in {None} \cup 1..DimDateLen(dim_date)
            /\ row.date_id \in {None} \cup 1..DimDateLen(dim_date)
            /\ row.director_id
                 \in {None} \cup Range(KeyColumn(dim_director, "id"))
            /\ row.language_id
                 \in {None} \cup Range(KeyColumn(dim_language, "id"))
            /\ row.company_id
                 \in {None} \cup Range(KeyColumn(dim_production_company, "id"))
            /\ row.country_id
                 \in {None} \cup Range(KeyColumn(dim_country, "id"))

\* a fact row with every foreign key resolved beside one whose first
\* company has a falsy key and stays null
C9_Witness ==
    /\ Returned("build_fact_movie_release")
    /\ \E f, h \in 1..Len(fact_df.rows) :
        /\ fact_df.rows[f].director_id # None
        /\ fact_df.rows[f].language_id # None
        /\ fact_df.rows[f].company_id # None
        /\ fact_df.rows[f].country_id # None
        /\ fact_df.rows[h].company_id = None
        /\ movies_df.rows[h].production_companies.items # <<>>
        /\ movies_df.rows[h].production_companies.items[1].isrec

\* the positions of the first occurrence of each value of column c
FirstOccurrences(df, c) ==
    Ascending({i \in 1..Len(df.rows) :
                  \A j \in 1..i - 1 : df.rows[j][c] # df.rows[i][c]})

KeptTitles(raw, c) ==
    LET first == FirstOccurrences(raw, c) IN
    [n \in 1..Len(first) |-> raw.rows[first[n]].title]

\* C10: the Cleaner keeps exactly the earliest row of each natural id, in
\* source order, and drops no other row.
C10_CleanerKeepsEarliest ==
    /\ PhaseNo(pc) > PhaseNo("clean_movies") =>
           KeyColumn(movies_df, "title") = KeptTitles(bronze_movies, "id")
    /\ PhaseNo(pc) > PhaseNo("clean_credits") =>
           KeyColumn(credits_df, "title")
             = KeptTitles(bronze_credits, "movie_id")

\* both tables dropped a duplicate, and a movie row with an invalid
\* date survived
C10_Witness ==
    /\ PhaseNo(pc) > PhaseNo("clean_credits")
    /\ Len(movies_df.rows) < Len(bronze_movies.rows)
    /\ Len(credits_df.rows) < Len(bronze_credits.rows)
    /\ \E i \in 1..Len(movies_df.rows) : movies_df.rows[i].release_date = NaT

\* C11: DimMovie has one row per distinct natural movie id of the cleaned
\* source: as many rows as the source has distinct ids, no original_id
\* twice, and row i carries id i and the natural id of cleaned row i.
C11_DimMovieOneRowPerId ==
    Returned("build_dim_movie") =>
        /\ Len(dim_movie.rows)
             = Cardinality(Range(Column(bronze_movies, "id")))
        /\ Len(dim_movie.rows) = Cardinality(Range(Column(movies_df, "id")))
        /\ \A a, b \in 1..Len(dim_movie.rows) :
               dim_movie.rows[a].original_id = dim_movie.rows[b].original_id
               => a = b
        /\ \A i \in 1..Len(dim_movie.rows) :
               /\ dim_movie.rows[i].id = i
               /\ dim_movie.rows[i].original_id = movies_df.rows[i].id

\* a source of MaxRows rows one of which repeated an id
C11_Witness ==
    /\ Returned("build_dim_movie")
    /\ Len(bronze_movies.rows) = MaxRows
    /\ Len(dim_movie.rows) = MaxRows - 1
    /\ Len(dim_movie.rows) >= 1

\* C12: the Cleaner is idempotent: clean_movies (clean_credits) applied
\* to its own output gives the same rows in the same order.
C12_CleanerIdempotent ==
    /\ PhaseNo(pc) > PhaseNo("clean_movies") =>
           clean_movies(movies_df) = movies_df
    /\ PhaseNo(pc) > PhaseNo("clean_credits") =>
           clean_credits(credits_df) = credits_df

\* the first pass dropped a duplicate and filled a number in a kept row
C12_Witness ==
    /\ PhaseNo(pc) > PhaseNo("clean_credits")
    /\ Len(movies_df.rows) < Len(bronze_movies.rows)
    /\ Len(credits_df.rows) < Len(bronze_credits.rows)
    /\ \E i \in 1..Len(movies_df.rows) : \E c \in NumericColumns :
           /\ movies_df.rows[i][c] = 0
           /\ bronze_movies.rows[movies_df.rows[i].title][c] = Garbage

Invalid(x) == x \in {NaN, Garbage}
\* the source row a cleaned row was made from (the title stands for the
\* row's position in the source file)
SourceRow(row) == bronze_movies.rows[row.title]

\* C13: a movie row whose popularity, vote_average, budget or revenue is
\* missing or no valid number gets 0 for that field in the cleaned row
\* and in its fact row; no cleaned row and no fact row holds a
\* not-a-number value in these fields.
C13_InvalidNumbersBecomeZero ==
    /\ Returned("clean_movies") =>
        \A i \in Movies : \A c \in Measures :
            /\ ~Invalid(movies_df.rows[i][c])
            /\ Invalid(SourceRow(movies_df.rows[i])[c])
                   => movies_df.rows[i][c] = 0
    /\ Returned("build_fact_movie_release") =>
        /\ \A i \in Movies : \E f \in 1..Len(fact_df.rows) :
               fact_df.rows[f].movie_info_id = i
        /\ \A f \in 1..Len(fact_df.rows) : \A c \in Measures :
               /\ ~Invalid(fact_df.rows[f][c])
               /\ Invalid(SourceRow(
                      movies_df.rows[fact_df.rows[f].movie_info_id])[c])
                      => fact_df.rows[f][c] = 0

\* a fact row whose budget is 0 because the source cell was no number
C13_Witness ==
    /\ Returned("build_fact_movie_release")
    /\ \E f \in 1..Len(fact_df.rows) :
           /\ fact_df.rows[f].budget = 0
           /\ SourceRow(movies_df.rows[fact_df.rows[f].movie_info_id]).budget
                = Garbage

\* every table the loader loads holds rows
StorePopulated == \A n \in 1..Len(LoadOrder) :
                      RowCount(LoadOrder[n], db[LoadOrder[n]]) > 0

\* C14: a loader call against a store that an earlier call populated is
\* a skip that leaves every table of the store, so every row count, as
\* it was.
C14_SecondLoadChangesNothing ==
    [][(pc = "load_gold_to_database" /\ StorePopulated)
         => (pc' = "run_returned" /\ load_log' = Skipped /\ db' = db)]_vars

\* the second start's loader call returned from a populated store
C14_Witness ==
    /\ starts = 2
    /\ pc = "run_returned"
    /\ load_log = Skipped
    /\ StorePopulated

FactCount == RowCount("fact_movie_release", db["fact_movie_release"])

\* C15: the loader skips the load if the fact table has rows and
\* attempts it if the fact table is empty, in every store state that
\* earlier loads can leave.
C15_SkipDecidedOnFactTable ==
    /\ (pc = "run_returned" /\ load_log = Skipped) => FactCount > 0
    /\ pc = LoadPcs[1] => FactCount = 0

SameRows(t, a, b) ==
    IF t = "dim_date"
    THEN (RowCount(t, a) = 0 /\ RowCount(t, b) = 0) \/ a = b
    ELSE a.rows = b.rows

NoLoadFailed ==
    /\ load_log # Skipped
    /\ \A i \in 1..Len(load_log) : load_log[i].outcome = "loaded"

\* C16: when the loader has run with no table load failing, each of the
\* nine snapshot tables is in its relational table.
C16_NineTablesLoaded ==
    (pc = "run_returned" /\ NoLoadFailed) =>
        \A t \in GoldTables : SameRows(t, db[t], files[t])

\* C17: whatever table loads fail, the loader attempts every table in
\* order and returns normally: a finished call has logged all eight
\* tables, and no exception leaves a try block of the loader.
C17_LoaderAttemptsEveryTable ==
    /\ \A n \in 1..Len(LoadOrder) : pc = LoadPcs[n] =>
           [i \in 1..Len(load_log) |-> load_log[i].table]
             = SubSeq(LoadOrder, 1, n - 1)
    /\ (pc = "run_returned" /\ load_log # Skipped) =>
           [i \in 1..Len(load_log) |-> load_log[i].table] = LoadOrder
    /\ pc \in {"except", "raised", "startup_failed"} => load_log = <<>>

\* the first table's load failed and the last table was loaded all the
\* same
C17_Witness ==
    /\ pc = "run_returned"
    /\ Len(load_log) = Len(LoadOrder)
    /\ load_log[1].outcome = "failed"
    /\ load_log[Len(LoadOrder)].outcome = "loaded"
    /\ FactCount > 0

RunRaised == pc \in {"except", "raised", "startup_failed"}

\* C18: run raises only on a pipeline-level failure (an unreadable
\* source file); a row that fails to parse or a table that fails to
\* load never makes it raise; and the startup fails exactly when run
\* raised.
C18_RaisesOnlyOnPipelineFailure ==
    /\ RunRaised => exc.type = "FileNotFoundError"
    /\ pc = "startup_failed" => exc # NoExc
    /\ pc \in {"run_returned", "yield"} => exc = NoExc

\* the run of this start is complete: it returned normally after
\* writing every snapshot file and calling the loader
RunCompleted ==
    /\ exc = NoExc
    /\ SilverFiles \cup GoldTables \subseteq DOMAIN files
    /\ load_log # <<>>

\* C19: the lifespan handler yields only after the run of this start
\* completed, and once it has yielded the pipeline writes neither a
\* snapshot file nor the store.
C19_WritesBeforeYield ==
    [][/\ (pc' = "yield" /\ pc # "yield")
           => (pc = "run_returned" /\ RunCompleted)
       /\ pc = "yield" => (files' = files /\ db' = db)]_vars

\* serving, with the facts of two movies in the store
C19_Witness ==
    /\ pc = "yield"
    /\ FactCount = MaxRows

ValidDates == {d \in Range(Column(movies_df, "release_date")) : d # NaT}

\* C20: DimDate has exactly one row for every day from the minimum to
\* the maximum valid release date, no other row, and the row of a day
\* has as id its 1-based offset from the minimum date.
C20_DateSpine ==
    (Returned("build_dim_date") /\ ValidDates # {}) =>
        LET rows == DimDateRows(dim_date) IN
        /\ \A d \in Min(ValidDates)..Max(ValidDates) :
               \E i \in 1..Len(rows) :
                   /\ rows[i].date = d
                   /\ rows[i].id = d - Min(ValidDates) + 1
                   /\ \A j \in 1..Len(rows) : rows[j].date = d => j = i
        /\ \A i \in 1..Len(rows) :
               rows[i].date \in Min(ValidDates)..Max(ValidDates)

\* movies on the first and the last day only: the days between have
\* rows too
C20_Witness ==
    /\ Returned("build_dim_date")
    /\ ValidDates = {1, MaxDay}
    /\ Len(DimDateRows(dim_date)) = MaxDay

\* ------------------------------------------ claims on the whole output
\* the tables of phase 2 of run (etl.py 628-656) as a function of the
\* cleaned tables, for a run in which no builder raises
RunGold(m, c) ==
    LET dd == build_dim_date(m)
        dm == build_dim_movie(m)
        dg == build_dim_genre(m)
        ddir == build_dim_director(c)
        dpc == build_dim_production_company(m)
        dl == build_dim_language(m).df
        dc == build_dim_country(m)
    IN [dim_date |-> dd, dim_movie |-> dm, dim_genre |-> dg,
        dim_director |-> ddir, dim_production_company |-> dpc,
        dim_language |-> dl, dim_country |-> dc,
        bridge_movie_genre |-> build_bridge_movie_genre(m, dm, dg).df,
        fact_movie_release |->
            build_fact_movie_release(m, c, dm, dd, ddir, dl, dpc, dc)]

\* the tables the run at hand has built
Gold == [dim_date |-> dim_date, dim_movie |-> dim_movie,
         dim_genre |-> dim_genre, dim_director |-> dim_director,
         dim_production_company |-> dim_production_company,
         dim_language |-> dim_language, dim_country |-> dim_country,
         bridge_movie_genre |-> bridge_df, fact_movie_release |-> fact_df]

Permuted(df, p) == [df EXCEPT !.rows = [i \in 1..Len(df.rows) |-> df.rows[p[i]]]]
RowPermutations(df) == Permutations(1..Len(df.rows))

NaturalOf(dim, key, id) ==
    IF id = None THEN None
    ELSE LET hits == {i \in 1..Len(dim.rows) : dim.rows[i].id = id} IN
         IF hits = {} THEN None ELSE dim.rows[Min(hits)][key]

\* a table set with every surrogate key replaced by the natural key it
\* stands for
NaturalContent(g) ==
    [dim_date |-> g.dim_date,
     dim_movie |-> Range(KeyColumn(g.dim_movie, "original_id")),
     dim_genre |-> Range(KeyColumn(g.dim_genre, "id")),
     dim_director |-> Range(KeyColumn(g.dim_director, "id")),
     dim_production_company |->
         Range(KeyColumn(g.dim_production_company, "id")),
     dim_language |-> Range(KeyColumn(g.dim_language, "iso_639_1")),
     dim_country |-> Range(KeyColumn(g.dim_country, "iso_3166_1")),
     bridge_movie_genre |->
         {<<NaturalOf(g.dim_movie, "original_id",
                      g.bridge_movie_genre.rows[b].movie_id),
            g.bridge_movie_genre.rows[b].genre_id>> :
             b \in 1..Len(g.bridge_movie_genre.rows)},
     fact_movie_release |->
         {[g.fact_movie_release.rows[f] EXCEPT
              !.id = 0,
              !.movie_info_id = NaturalOf(g.dim_movie, "original_id", @),
              !.language_id = NaturalOf(g.dim_language, "iso_639_1", @),
              !.country_id = NaturalOf(g.dim_country, "iso_3166_1", @)] :
             f \in 1..Len(g.fact_movie_release.rows)}]

MovieOf(f) == movies_df.rows[f.movie_info_id]

\* the value of column out in the dimension row of the first entry, in
\* list order, whose natural key is in the dimension; None without one
FirstResolving(value, dim, key, out) ==
    LET items == IF value.ok THEN value.items ELSE <<>>
        Row(k) == {r \in 1..Len(dim.rows) : dim.rows[r][key] = k}
        hits == {i \in 1..Len(items) :
                    /\ items[i].isrec
                    /\ key \in dim.cols
                    /\ Row(items[i].key) # {}}
    IN IF hits = {} THEN None
       ELSE dim.rows[Min(Row(items[Min(hits)].key))][out]

\* C22: language_id, company_id and country_id of a fact row are the
\* dimension id of the first entry of the movie's list that resolves in
\* the dimension, and null only when no entry resolves.
C22_FirstResolvingEntry ==
    pc = "save_gold" =>
        \A i \in 1..Len(fact_df.rows) :
            LET f == fact_df.rows[i] IN
            /\ f.language_id = FirstResolving(MovieOf(f).spoken_languages,
                                   dim_language, "iso_639_1", "id")
            /\ f.company_id = FirstResolving(MovieOf(f).production_companies,
                                  dim_production_company, "id", "id")
            /\ f.country_id = FirstResolving(MovieOf(f).production_countries,
                                  dim_country, "iso_3166_1", "id")

\* the credit rows of a movie
CreditsOf(movie_id) ==
    {j \in 1..Len(credits_df.rows) : credits_df.rows[j].movie_id = movie_id}

\* the first crew member with job Director whose id is in DimDirector
FirstListedDirector(crew) ==
    LET hits == {i \in 1..Len(crew) :
                    /\ crew[i].job = "Director"
                    /\ crew[i].key \in Range(KeyColumn(dim_director, "id"))}
    IN IF hits = {} THEN None ELSE crew[Min(hits)].key

\* C23: director_id of a fact row is the id of the first crew member of
\* the movie's credit row with job Director and an id in DimDirector;
\* null when the movie has no credit row, when the crew list does not
\* parse to a list of records, or when no such member exists.
C23_FirstListedDirector ==
    pc = "save_gold" =>
        \A i \in 1..Len(fact_df.rows) :
            LET f == fact_df.rows[i]
                cs == CreditsOf(MovieOf(f).id)
            IN f.director_id =
                  IF cs = {} THEN None
                  ELSE LET crew == credits_df.rows[Max(cs)].crew IN
                       IF WellFormed(crew)
                       THEN FirstListedDirector(crew.items) ELSE None

\* C24: a movie with a valid release date has as release_date_id and
\* date_id the id of the DimDate row of that calendar date; a movie
\* without a valid release date has 1 in both; when no movie has a valid
\* date DimDate is the default span and every date id is 1.
C24_DateKeys ==
    pc = "save_gold" =>
        IF ValidDates = {}
        THEN /\ dim_date = [start |-> DefaultMinDate, end |-> DefaultMaxDate]
             /\ \A i \in 1..Len(fact_df.rows) :
                    /\ fact_df.rows[i].release_date_id = 1
                    /\ fact_df.rows[i].date_id = 1
        ELSE LET rows == DimDateRows(dim_date) IN
             \A i \in 1..Len(fact_df.rows) :
                 LET f == fact_df.rows[i]
                     d == MovieOf(f).release_date
                 IN IF d = NaT
                    THEN f.release_date_id = 1 /\ f.date_id = 1
                    ELSE \E r \in 1..Len(rows) :
                             /\ rows[r].date = d
                             /\ f.release_date_id = rows[r].id
                             /\ f.date_id = rows[r].id

\* two movies released on the first and on the last day
C24_Witness ==
    /\ pc = "save_gold"
    /\ Len(fact_df.rows) = 2
    /\ fact_df.rows[1].date_id = 1
    /\ fact_df.rows[2].date_id = MaxDay
    /\ MovieOf(fact_df.rows[2]).release_date = MaxDay

\* C25: the runtime of a fact row is null when the runtime of the source
\* row is missing or no valid number, and is the source runtime
\* otherwise.
C25_RuntimeNullWhenInvalid ==
    Returned("build_fact_movie_release") =>
        \A i \in 1..Len(fact_df.rows) :
            LET f == fact_df.rows[i]
                source == SourceRow(MovieOf(f)).runtime
            IN f.runtime = IF Invalid(source) THEN None ELSE source

\* the table without the rows on whose list the scan of column c raises
WithoutRaisingRows(df, c) ==
    [df EXCEPT !.rows = SelectSeq(@, LAMBDA row : WellFormed(row[c]))]

\* C27: a source row on whose embedded list the scan raises contributes
\* nothing to the dimension: the genre and the production company tables
\* are the ones built from the input without such rows.
C27_RowAllOrNothing ==
    /\ Returned("build_dim_genre") =>
           dim_genre = build_dim_genre(WithoutRaisingRows(movies_df, "genres"))
    /\ Returned("build_dim_production_company") =>
           dim_production_company
             = build_dim_production_company(
                   WithoutRaisingRows(movies_df, "production_companies"))

\* ------------------------------------------------ claims on the store
\* C28: after any sequence of complete runs, on the same or on changed
\* source data and with no reset between them, every table of the store
\* holds the rows of its snapshot file.
C28_StoreEqualsSnapshots ==
    (pc = "run_returned" /\ faults = 0) =>
        \A t \in GoldTables : SameRows(t, db[t], files[t])

\* the table the loader's next try block loads, "none" outside the
\* blocks
LoadingTable ==
    IF \E n \in 1..Len(LoadOrder) : pc = LoadPcs[n]
    THEN LoadOrder[CHOOSE n \in 1..Len(LoadOrder) : pc = LoadPcs[n]]
    ELSE "none"

\* C29: every table load is all-or-nothing. A try block of the loader
\* leaves its table as it was or adds every row of the table's snapshot
\* file to it, and changes no other table, so rows added for a table
\* whose load failed are not committed by a later commit; when a loader
\* call on an empty store returns, every table holds all rows of its
\* snapshot file or none.
C29_LoadAllOrNothing ==
    [][/\ LoadingTable # "none" =>
            LET t == LoadingTable IN
            /\ \A u \in GoldTables \ {t} : db'[u] = db[u]
            /\ \/ db'[t] = db[t]
               \/ /\ db'[t] = Committed(t, db[t], files[t])
                  /\ load_log'[Len(load_log')].outcome = "loaded"
       /\ (pc = "run_returned" /\ starts = 1) =>
            \A t \in GoldTables :
                RowCount(t, db[t]) = 0 \/ SameRows(t, db[t], files[t])]_vars

\* the commit of the second table failed: the first table is loaded,
\* the second is empty, and the rows added for the later tables are
\* still pending when the loader returns
C29_Witness ==
    /\ pc = "run_returned"
    /\ Len(load_log) = Len(LoadOrder)
    /\ load_log[1].outcome = "loaded"
    /\ load_log[2].outcome = "failed"
    /\ RowCount(LoadOrder[1], db[LoadOrder[1]]) > 0
    /\ RowCount(LoadOrder[2], files[LoadOrder[2]]) > 0
    /\ RowCount(LoadOrder[2], db[LoadOrder[2]]) = 0
    /\ ~session.active
    /\ Len(session.pending) = Len(LoadOrder) - 2

\* ------------------------------------------ claims on the text columns
\* the source row the n-th cleaned row was made from: the n-th first
\* occurrence of a natural id
SourceOfCleaned(n) ==
    bronze_movies.rows[FirstOccurrences(bronze_movies, "id")[n]]

\* C26 (as claimed): after clean_movies each of title, overview,
\* tagline, status and original_language holds the empty string where
\* the source value was missing and the source value otherwise.
C26_TextColumnsFilled ==
    PhaseNo(pc) > PhaseNo("clean_movies") =>
        \A n \in 1..Len(movies_df.rows) : \A c \in TextColumns :
            movies_df.rows[n][c] =
                IF SourceOfCleaned(n)[c] = NaN THEN EmptyString
                ELSE SourceOfCleaned(n)[c]

\* C26 (amended): after clean_movies overview and tagline hold the empty
\* string where the source value was missing, original_language holds
\* 'en' where it was missing, title and status keep a missing value,
\* and every source value that was present is unchanged.
C26_TextColumnsCleaned ==
    PhaseNo(pc) > PhaseNo("clean_movies") =>
        \A n \in 1..Len(movies_df.rows) : \A c \in TextColumns :
            movies_df.rows[n][c] =
                IF SourceOfCleaned(n)[c] # NaN THEN SourceOfCleaned(n)[c]
                ELSE IF c \in {"overview", "tagline"} THEN EmptyString
                ELSE IF c = "original_language" THEN En
                ELSE NaN

\* a kept row whose tagline was missing, after a row whose status was
\* missing
C26_Witness ==
    /\ PhaseNo(pc) > PhaseNo("clean_movies")
    /\ Len(movies_df.rows) = 2
    /\ SourceOfCleaned(1).status = NaN
    /\ movies_df.rows[1].status = NaN
    /\ SourceOfCleaned(2).tagline = NaN
    /\ movies_df.rows[2].tagline = EmptyString
    /\ movies_df.rows[2].overview = 2

====
